---- MODULE Spec2Model ----
(***************************************************************************)
(* Model of scripts/find_duplicates.py and scripts/remove_duplicates.py:   *)
(* a directory walk, content hashing, grouping by digest, the resolution   *)
(* strategy and the dry-run / live executor, over a small file system      *)
(* holding regular files and symbolic links.                               *)
(***************************************************************************)
EXTENDS Integers, Sequences, FiniteSets, TLC

VARIABLES
    fs,            \* the file system: file slot -> entry
    order,         \* the order in which the file system lists names (os.scandir)
    pc,            \* position of the running tool
    args,          \* arguments of the current run
    duplicates,    \* duplicates dict, in insertion order: <<[hash, paths], ...>>
    idx,           \* position of the outer loop over duplicates.items()
    keep_file,     \* keep_file of the duplicate set being processed
    remove_files,  \* remove_files of the duplicate set being processed
    j,             \* position of the inner loop over remove_files
    out,           \* lines printed by the current run
    sys,           \* os.remove / os.symlink calls of the current run, with outcome
    file_count,    \* file_count of the scan tool
    fs0,           \* the file system when the current run started
    runs           \* number of runs started so far

vars == <<fs, order, pc, args, duplicates, idx, keep_file, remove_files, j,
          out, sys, file_count, fs0, runs>>

\* Number of tool runs in one behaviour.
MaxRuns == 2

(***************************************************************************)
(* The file system.  Paths are sequences of components; PathStr is the     *)
(* string the scripts handle.  Directories are fixed; every file slot is   *)
(* absent, a regular file or a symbolic link.                              *)
(***************************************************************************)
Dirs ==
    { <<>>, <<"a">>, <<"node_modules">>, <<"node_modules", "a">> }

Slots ==
    { <<"x">>, <<"yyyy">>, <<"a", "x">>, <<"a", "y">>,
      <<"node_modules", "x">>, <<"node_modules", "a", "x">> }

Hello == <<104, 105>>
World == <<119, 111>>

NoEnt == [kind |-> "none", data |-> <<>>, target |-> <<>>, readable |-> FALSE]
DirEnt == [kind |-> "dir", data |-> <<>>, target |-> <<>>, readable |-> TRUE]
File(d) == [kind |-> "file", data |-> d, target |-> <<>>, readable |-> TRUE]
Locked(d) == [kind |-> "file", data |-> d, target |-> <<>>, readable |-> FALSE]
Link(t) == [kind |-> "link", data |-> <<>>, target |-> t, readable |-> TRUE]

\* os.path.join(root, name)
join(root, name) == Append(root, name)

\* os.path.dirname(path)
dirname(p) == IF p = <<>> THEN <<>> ELSE SubSeq(p, 1, Len(p) - 1)

\* The path as the string the scripts see: components joined by "/".
RECURSIVE PathStr(_)
PathStr(p) ==
    IF p = <<>> THEN ""
    ELSE IF Len(p) = 1 THEN p[1]
    ELSE p[1] \o "/" \o PathStr(Tail(p))

\* len(p) of a path string
PathLen(p) == Len(PathStr(p))

\* os.path.abspath relative to the working directory: "." dropped, ".."
\* collapsed with the component before it.
RECURSIVE normpath(_, _)
normpath(done, rest) ==
    IF rest = <<>> THEN done
    ELSE IF Head(rest) = "." THEN normpath(done, Tail(rest))
    ELSE IF Head(rest) = ".."
         THEN normpath(dirname(done), Tail(rest))
    ELSE normpath(Append(done, Head(rest)), Tail(rest))

abspath(p) == normpath(<<>>, p)

\* Length of the longest common prefix of two component lists.
RECURSIVE commonprefix(_, _)
commonprefix(a, b) ==
    IF a = <<>> \/ b = <<>> \/ Head(a) # Head(b) THEN 0
    ELSE 1 + commonprefix(Tail(a), Tail(b))

\* os.path.relpath(path, start): up from start to the common prefix, then
\* down to path.
relpath(path, start) ==
    LET p == abspath(path)
        s == abspath(start)
        i == commonprefix(s, p)
        ups == [k \in 1..(Len(s) - i) |-> ".."]
        rel == ups \o SubSeq(p, i + 1, Len(p))
    IN  IF rel = <<>> THEN <<".">> ELSE rel

\* The entry the file system holds at a path (no link followed).
lstat(f, p) ==
    LET key == abspath(p)
    IN  IF key \in Slots THEN f[key]
        ELSE IF key \in Dirs THEN DirEnt
        ELSE NoEnt

\* open(filepath, "rb") and read to the end: symbolic links are followed,
\* at most as many as there are slots (a longer chain is a loop: ELOOP).
RECURSIVE readfile(_, _, _)
readfile(f, p, hops) ==
    LET e == lstat(f, p)
    IN  IF e.kind = "file" /\ e.readable THEN [ok |-> TRUE, data |-> e.data]
        ELSE IF e.kind = "link" /\ hops > 0
             THEN readfile(f, dirname(abspath(p)) \o e.target, hops - 1)
        ELSE [ok |-> FALSE, data |-> <<>>]

\* Bytes read per f.read call.
ChunkSize == 4096

HexDigits ==
    <<"0", "1", "2", "3", "4", "5", "6", "7",
      "8", "9", "a", "b", "c", "d", "e", "f">>

\* hash_md5.update(chunk): the digest state absorbs the chunk byte by byte
\* (a one-byte stand-in for MD5's compression).
RECURSIVE md5_update(_, _)
md5_update(h, chunk) ==
    IF chunk = <<>> THEN h
    ELSE md5_update((h * 33 + Head(chunk)) % 256, Tail(chunk))

\* for chunk in iter(lambda: f.read(4096), b""): hash_md5.update(chunk)
RECURSIVE read_chunks(_, _)
read_chunks(h, rest) ==
    IF rest = <<>> THEN h
    ELSE LET n == IF Len(rest) < ChunkSize THEN Len(rest) ELSE ChunkSize
         IN  read_chunks(md5_update(h, SubSeq(rest, 1, n)),
                         SubSeq(rest, n + 1, Len(rest)))

\* hash_md5.hexdigest()
hexdigest(h) == HexDigits[(h \div 16) + 1] \o HexDigits[(h % 16) + 1]

\* get_file_hash(filepath): the digest, or the IOError the open raised.
get_file_hash(f, filepath) ==
    LET r == readfile(f, filepath, Cardinality(Slots))
    IN  IF r.ok THEN [ok |-> TRUE, hash |-> hexdigest(read_chunks(89, r.data))]
        ELSE [ok |-> FALSE, hash |-> ""]

(***************************************************************************)
(* os.walk and the scan loop.                                              *)
(***************************************************************************)
DefaultExclude == {".git", "node_modules", "__pycache__"}

\* The names the file system lists in directory `key`, in its order.
scandir(f, ord, key) ==
    SelectSeq(ord, LAMBDA n : lstat(f, join(key, n)).kind # "none")

RECURSIVE flatten(_)
flatten(ss) == IF ss = <<>> THEN <<>> ELSE Head(ss) \o flatten(Tail(ss))

\* Variant: dirs[:] is not pruned.
RECURSIVE walk_unpruned(_, _, _, _)
walk_unpruned(f, ord, top, exclude_dirs) ==
    LET names == scandir(f, ord, top)
        files == SelectSeq(names, LAMBDA n : lstat(f, join(top, n)).kind # "dir")
        dirs == SelectSeq(names, LAMBDA n : lstat(f, join(top, n)).kind = "dir")
    IN  <<[root |-> top, dirs |-> dirs, files |-> files]>>
        \o flatten([k \in 1..Len(dirs) |->
                      walk_unpruned(f, ord, join(top, dirs[k]), exclude_dirs)])

\* os.walk(top), top-down, followlinks off: the directory itself first, then
\* each listed sub-directory that survived the pruning of dirs[:].
RECURSIVE walk(_, _, _, _)
walk(f, ord, top, exclude_dirs) ==
    LET names == scandir(f, ord, top)
        files == SelectSeq(names, LAMBDA n : lstat(f, join(top, n)).kind # "dir")
        dirs == SelectSeq(names, LAMBDA n : lstat(f, join(top, n)).kind = "dir")
        kept == SelectSeq(dirs, LAMBDA d : d \notin exclude_dirs)
    IN  <<[root |-> top, dirs |-> kept, files |-> files]>>
        \o flatten([k \in 1..Len(kept) |->
                      walk(f, ord, join(top, kept[k]), exclude_dirs)])

\* filepath = os.path.join(root, filename), for every file of every triple.
filepaths(triples) ==
    flatten([t \in 1..Len(triples) |->
               [k \in 1..Len(triples[t].files) |->
                  join(triples[t].root, triples[t].files[k])]])

\* Position of a key in the insertion-ordered dict, 0 when absent.
RECURSIVE dict_find(_, _, _)
dict_find(d, h, k) ==
    IF k > Len(d) THEN 0
    ELSE IF d[k].hash = h THEN k
    ELSE dict_find(d, h, k + 1)

\* hash_dict[file_hash].append(filepath)
dict_append(d, h, p) ==
    LET k == dict_find(d, h, 1)
    IN  IF k = 0 THEN Append(d, [hash |-> h, paths |-> <<p>>])
        ELSE [d EXCEPT ![k].paths = Append(@, p)]

\* Variant: the file is counted before it is hashed.
scan_file_counts_first(f, acc, p) ==
    LET r == get_file_hash(f, p)
    IN  IF r.ok
        THEN [acc EXCEPT !.hash_dict = dict_append(@, r.hash, p),
                         !.file_count = @ + 1]
        ELSE [acc EXCEPT !.errors = Append(@, p), !.file_count = @ + 1]

\* One iteration of the loop over files: hash, then append and count, or
\* the except branch (which leaves the file out).
scan_file(f, acc, p) ==
    LET r == get_file_hash(f, p)
    IN  IF r.ok
        THEN [acc EXCEPT !.hash_dict = dict_append(@, r.hash, p),
                         !.file_count = @ + 1]
        ELSE [acc EXCEPT !.errors = Append(@, p)]

RECURSIVE scan_loop(_, _, _)
scan_loop(f, acc, paths) ==
    IF paths = <<>> THEN acc
    ELSE scan_loop(f, scan_file(f, acc, Head(paths)), Tail(paths))

\* The scan both tools run: walk, hash, group.
scan(f, ord, directory, exclude_dirs) ==
    scan_loop(f, [hash_dict |-> <<>>, file_count |-> 0, errors |-> <<>>],
              filepaths(walk(f, ord, directory, exclude_dirs)))

\* Variant: groups of a single file are kept.
find_dups_singletons(hash_dict) == SelectSeq(hash_dict, LAMBDA e : Len(e.paths) >= 1)

\* duplicates = {h: paths for h, paths in hash_dict.items() if len(paths) > 1}
find_dups(hash_dict) == SelectSeq(hash_dict, LAMBDA e : Len(e.paths) > 1)

(***************************************************************************)
(* The resolution strategy.                                                *)
(***************************************************************************)
\* Variant: insertion in front of the elements of equal length.
RECURSIVE insert_by_len_unstable(_, _)
insert_by_len_unstable(sorted, p) ==
    IF sorted = <<>> THEN <<p>>
    ELSE IF PathLen(Head(sorted)) < PathLen(p)
         THEN <<Head(sorted)>> \o insert_by_len_unstable(Tail(sorted), p)
    ELSE <<p>> \o sorted

\* Insertion of p behind every element that is not longer: list.sort is
\* stable, equal keys keep their order.
RECURSIVE insert_by_len(_, _)
insert_by_len(sorted, p) ==
    IF sorted = <<>> THEN <<p>>
    ELSE IF PathLen(Head(sorted)) <= PathLen(p)
         THEN <<Head(sorted)>> \o insert_by_len(Tail(sorted), p)
    ELSE <<p>> \o sorted

\* paths.sort(key=lambda p: len(p))
RECURSIVE sort_by_len(_, _)
sort_by_len(acc, paths) ==
    IF paths = <<>> THEN acc
    ELSE sort_by_len(insert_by_len(acc, Head(paths)), Tail(paths))

\* Variant: the list is sorted whatever the strategy.
resolve_always_sorted(paths, strategy) == sort_by_len(<<>>, paths)

\* The list a duplicate set is processed in: sorted for keep_shortest_path,
\* left as found for keep_first.
resolve(paths, strategy) ==
    IF strategy = "keep_shortest_path" THEN sort_by_len(<<>>, paths)
    ELSE paths

(***************************************************************************)
(* Output lines and system calls.                                          *)
(***************************************************************************)
Line(msg, path, to, hash, n) ==
    [msg |-> msg, path |-> path, to |-> to, hash |-> hash, n |-> n]

Call(call, path, target, ok) ==
    [call |-> call, path |-> path, target |-> target, ok |-> ok]

\* The block the scan tool prints for each duplicate set.
RECURSIVE dup_blocks(_)
dup_blocks(dups) ==
    IF dups = <<>> THEN <<>>
    ELSE <<Line("Duplicate set", <<>>, <<>>, Head(dups).hash, 0)>>
         \o [k \in 1..Len(Head(dups).paths) |->
               Line("  path", Head(dups).paths[k], <<>>, "", 0)]
         \o <<Line("", <<>>, <<>>, "", 0)>>
         \o dup_blocks(Tail(dups))

(***************************************************************************)
(* Command lines.                                                          *)
(***************************************************************************)
Directories == { <<".">>, <<"node_modules">> }
ExcludeArgs == { {}, {"a"} }
Strategies == {"keep_first", "keep_shortest_path"}

\* exclude_dirs of __main__: the defaults, extended by --exclude.
main_exclude(exclude) == DefaultExclude \cup exclude

NoArgs ==
    [tool |-> "none", directory |-> <<>>, exclude_dirs |-> {},
     dry_run |-> TRUE, strategy |-> "keep_first", symlink |-> FALSE]

Live == args.tool = "remove" /\ ~args.dry_run

(***************************************************************************)
(* Initial states: a tree of regular files, some of equal content; the     *)
(* file x may be unreadable, or a symbolic link to a/x.  The order in      *)
(* which a directory lists its names belongs to the file system: it is     *)
(* chosen here and stays as it is.                                         *)
(***************************************************************************)
NameOrders ==
    { <<"x", "y", "yyyy", "a", "node_modules">>,
      <<"yyyy", "y", "x", "node_modules", "a">> }

InitTrees ==
    { t \in [Slots -> {File(Hello), File(World), Locked(Hello),
                       Link(<<"a", "x">>)}] :
        /\ t[<<"x">>] \in {File(Hello), Locked(Hello), Link(<<"a", "x">>)}
        /\ t[<<"yyyy">>] \in {File(Hello), File(World)}
        /\ t[<<"a", "x">>] = File(Hello)
        /\ t[<<"a", "y">>] \in {File(Hello), File(World)}
        /\ File(World) \in {t[<<"yyyy">>], t[<<"a", "y">>]}
        /\ t[<<"node_modules", "x">>] = File(World)
        /\ t[<<"node_modules", "a", "x">>] = File(World) }

Init ==
    /\ fs \in InitTrees
    /\ order \in NameOrders
    /\ pc = "idle"
    /\ args = NoArgs
    /\ duplicates = <<>>
    /\ idx = 0
    /\ keep_file = <<>>
    /\ remove_files = <<>>
    /\ j = 0
    /\ out = <<>>
    /\ sys = <<>>
    /\ file_count = 0
    /\ fs0 = fs
    /\ runs = 0

(***************************************************************************)
(* The scan tool: find_duplicates, run from __main__.                      *)
(***************************************************************************)
ScanTool(directory, exclude) ==
    /\ pc = "idle"
    /\ runs < MaxRuns
    /\ runs' = runs + 1
    /\ \E ex \in {main_exclude(exclude)} :
       \E r \in {scan(fs, order, directory, ex)} :
       \E dups \in {find_dups(r.hash_dict)} :
           /\ args' = [NoArgs EXCEPT !.tool = "scan", !.directory = directory,
                                     !.exclude_dirs = ex]
           /\ duplicates' = dups
           /\ file_count' = r.file_count
           /\ out' = <<Line("Scanning directory", directory, <<>>, "", 0)>>
                     \o [k \in 1..Len(r.errors) |->
                           Line("Error accessing", r.errors[k], <<>>, "", 0)]
                     \o <<Line("Scanned", <<>>, <<>>, "", r.file_count)>>
                     \o (IF dups = <<>>
                         THEN <<Line("No duplicate files found.", <<>>, <<>>, "", 0)>>
                         ELSE <<Line("Found", <<>>, <<>>, "", Len(dups))>>
                              \o dup_blocks(dups))
    /\ pc' = "done"
    /\ idx' = 0 /\ j' = 0 /\ keep_file' = <<>> /\ remove_files' = <<>>
    /\ sys' = <<>>
    /\ fs0' = fs
    /\ UNCHANGED <<fs, order>>

(***************************************************************************)
(* The remove tool: remove_duplicates, run from __main__.                  *)
(***************************************************************************)
\* Lines 16-40: the scan, the grouping, and the return when nothing is
\* duplicated.  An unreadable file is skipped without a line.
RemoveStart(directory, no_dry_run, strategy, symlink, exclude) ==
    /\ pc = "idle"
    /\ runs < MaxRuns
    /\ runs' = runs + 1
    /\ \E ex \in {main_exclude(exclude)} :
       \E r \in {scan(fs, order, directory, ex)} :
       \E dups \in {find_dups(r.hash_dict)} :
           /\ args' = [tool |-> "remove", directory |-> directory,
                       exclude_dirs |-> ex, dry_run |-> ~no_dry_run,
                       strategy |-> strategy, symlink |-> symlink]
           /\ duplicates' = dups
           /\ IF dups = <<>>
              THEN /\ out' = <<Line("No duplicate files found.", <<>>, <<>>, "", 0)>>
                   /\ pc' = "done"
                   /\ idx' = 0
              ELSE /\ out' = <<>>
                   /\ pc' = "sets"
                   /\ idx' = 1
    /\ j' = 0 /\ keep_file' = <<>> /\ remove_files' = <<>>
    /\ sys' = <<>>
    /\ file_count' = 0
    /\ fs0' = fs
    /\ UNCHANGED <<fs, order>>

\* Lines 42-52: the next duplicate set; its list is sorted in place for
\* keep_shortest_path; keep_file is its head, remove_files its tail.
NextSet ==
    /\ pc = "sets"
    /\ idx <= Len(duplicates)
    /\ \E paths \in {resolve(duplicates[idx].paths, args.strategy)} :
           /\ duplicates' = [duplicates EXCEPT ![idx].paths = paths]
           /\ keep_file' = Head(paths)
           /\ remove_files' = Tail(paths)
           /\ out' = out \o <<Line("For duplicate set", <<>>, <<>>,
                                   duplicates[idx].hash, 0),
                              Line("Keeping", Head(paths), <<>>, "", 0)>>
    /\ pc' = "files"
    /\ j' = 1
    /\ UNCHANGED <<fs, order, args, idx, sys, file_count, fs0, runs>>

\* Variant: the dry run removes the file it reports.
WouldRemove_removes ==
    /\ pc = "files"
    /\ j <= Len(remove_files)
    /\ args.dry_run
    /\ fs' = [fs EXCEPT ![abspath(remove_files[j])] = NoEnt]
    /\ out' = Append(out, Line("Would remove", remove_files[j], <<>>, "", 0))
    /\ j' = j + 1
    /\ UNCHANGED <<order, pc, args, duplicates, idx, keep_file,
                   remove_files, sys, file_count, fs0, runs>>

\* Lines 55-59: the dry run prints what it would do.
WouldRemove ==
    /\ pc = "files"
    /\ j <= Len(remove_files)
    /\ args.dry_run
    /\ out' = Append(out,
                IF args.symlink
                THEN Line("Would remove and create symlink", remove_files[j],
                          keep_file, "", 0)
                ELSE Line("Would remove", remove_files[j], <<>>, "", 0))
    /\ j' = j + 1
    /\ UNCHANGED <<fs, order, pc, args, duplicates, idx, keep_file,
                   remove_files, sys, file_count, fs0, runs>>

\* Variant: os.remove is given keep_file.
RemoveOk_keep_file ==
    /\ pc = "files"
    /\ j <= Len(remove_files)
    /\ ~args.dry_run
    /\ lstat(fs, keep_file).kind \in {"file", "link"}
    /\ fs' = [fs EXCEPT ![abspath(keep_file)] = NoEnt]
    /\ sys' = Append(sys, Call("remove", remove_files[j], <<>>, TRUE))
    /\ out' = Append(out, Line("Removed", remove_files[j], <<>>, "", 0))
    /\ IF args.symlink
       THEN pc' = "link" /\ j' = j
       ELSE pc' = "files" /\ j' = j + 1
    /\ UNCHANGED <<order, args, duplicates, idx, keep_file, remove_files,
                   file_count, fs0, runs>>

\* Lines 62-63: os.remove succeeds; with --symlink the link comes next.
RemoveOk ==
    /\ pc = "files"
    /\ j <= Len(remove_files)
    /\ ~args.dry_run
    /\ lstat(fs, remove_files[j]).kind \in {"file", "link"}
    /\ fs' = [fs EXCEPT ![abspath(remove_files[j])] = NoEnt]
    /\ sys' = Append(sys, Call("remove", remove_files[j], <<>>, TRUE))
    /\ out' = Append(out, Line("Removed", remove_files[j], <<>>, "", 0))
    /\ IF args.symlink
       THEN pc' = "link" /\ j' = j
       ELSE pc' = "files" /\ j' = j + 1
    /\ UNCHANGED <<order, args, duplicates, idx, keep_file, remove_files,
                   file_count, fs0, runs>>

\* Variant: the OSError of os.remove is not caught, the run ends.
RemoveFail_uncaught ==
    /\ pc = "files"
    /\ j <= Len(remove_files)
    /\ ~args.dry_run
    /\ sys' = Append(sys, Call("remove", remove_files[j], <<>>, FALSE))
    /\ pc' = "done"
    /\ UNCHANGED <<fs, order, args, duplicates, idx, keep_file,
                   remove_files, j, out, file_count, fs0, runs>>

\* Lines 62, 71-72: os.remove raises OSError; the file stays.
RemoveFail ==
    /\ pc = "files"
    /\ j <= Len(remove_files)
    /\ ~args.dry_run
    /\ sys' = Append(sys, Call("remove", remove_files[j], <<>>, FALSE))
    /\ out' = Append(out, Line("Error removing", remove_files[j], <<>>, "", 0))
    /\ j' = j + 1
    /\ UNCHANGED <<fs, order, pc, args, duplicates, idx, keep_file,
                   remove_files, file_count, fs0, runs>>

\* Variant: the link is given keep_file as it stands, not made relative
\* to the removed file's directory.
SymlinkOk_not_relative ==
    /\ pc = "link"
    /\ lstat(fs, remove_files[j]).kind = "none"
    /\ fs' = [fs EXCEPT ![abspath(remove_files[j])] = Link(keep_file)]
    /\ sys' = Append(sys, Call("symlink", remove_files[j], keep_file, TRUE))
    /\ out' = Append(out, Line("Created symlink", remove_files[j],
                               keep_file, "", 0))
    /\ pc' = "files"
    /\ j' = j + 1
    /\ UNCHANGED <<order, args, duplicates, idx, keep_file, remove_files,
                   file_count, fs0, runs>>

\* Lines 65-70: the link at the removed path, to the kept file, relative
\* to the removed file's directory.
SymlinkOk ==
    /\ pc = "link"
    /\ LET remove_dir == dirname(remove_files[j])
           rel_path == relpath(keep_file, remove_dir)
       IN  /\ lstat(fs, remove_files[j]).kind = "none"
           /\ fs' = [fs EXCEPT ![abspath(remove_files[j])] = Link(rel_path)]
           /\ sys' = Append(sys, Call("symlink", remove_files[j], rel_path, TRUE))
           /\ out' = Append(out, Line("Created symlink", remove_files[j],
                                      rel_path, "", 0))
    /\ pc' = "files"
    /\ j' = j + 1
    /\ UNCHANGED <<order, args, duplicates, idx, keep_file, remove_files,
                   file_count, fs0, runs>>

\* Lines 69, 71-72: os.symlink raises OSError; the removal stands.
SymlinkFail ==
    /\ pc = "link"
    /\ LET remove_dir == dirname(remove_files[j])
           rel_path == relpath(keep_file, remove_dir)
       IN  /\ sys' = Append(sys, Call("symlink", remove_files[j], rel_path, FALSE))
           /\ out' = Append(out, Line("Error removing", remove_files[j],
                                      <<>>, "", 0))
    /\ pc' = "files"
    /\ j' = j + 1
    /\ UNCHANGED <<fs, order, args, duplicates, idx, keep_file, remove_files,
                   file_count, fs0, runs>>

\* Line 73: the set is done, the outer loop goes on.
EndSet ==
    /\ pc = "files"
    /\ j > Len(remove_files)
    /\ out' = Append(out, Line("", <<>>, <<>>, "", 0))
    /\ pc' = "sets"
    /\ idx' = idx + 1
    /\ UNCHANGED <<fs, order, args, duplicates, keep_file, remove_files, j,
                   sys, file_count, fs0, runs>>

\* The loop over duplicates.items() is exhausted: remove_duplicates returns.
Return ==
    /\ pc = "sets"
    /\ idx > Len(duplicates)
    /\ pc' = "done"
    /\ UNCHANGED <<fs, order, args, duplicates, idx, keep_file, remove_files,
                   j, out, sys, file_count, fs0, runs>>

\* The process exits; the next command line starts from the file system
\* this run left.
Exit ==
    /\ pc = "done"
    /\ pc' = "idle"
    /\ args' = NoArgs
    /\ duplicates' = <<>>
    /\ idx' = 0 /\ j' = 0 /\ keep_file' = <<>> /\ remove_files' = <<>>
    /\ out' = <<>>
    /\ sys' = <<>>
    /\ file_count' = 0
    /\ fs0' = fs
    /\ UNCHANGED <<fs, order, runs>>

Step ==
    \/ NextSet
    \/ WouldRemove
    \/ RemoveOk
    \/ RemoveFail
    \/ SymlinkOk
    \/ SymlinkFail
    \/ EndSet
    \/ Return
    \/ Exit

Next ==
    \/ \E d \in Directories, ex \in ExcludeArgs : ScanTool(d, ex)
    \/ \E d \in Directories, ndr \in BOOLEAN, st \in Strategies,
          sl \in BOOLEAN, ex \in ExcludeArgs : RemoveStart(d, ndr, st, sl, ex)
    \/ Step

Spec == Init /\ [][Next]_vars

\* The loop of remove_duplicates runs on by itself once started.
FairSpec == Spec /\ WF_vars(Step)

(***************************************************************************)
(* Vocabulary of the properties.                                           *)
(***************************************************************************)
Range(s) == { s[k] : k \in 1..Len(s) }

Pos(s, x) == CHOOSE k \in 1..Len(s) : s[k] = x

\* The files of the run's tree in discovery order, when the tree is f.
Discovery(f) == filepaths(walk(f, order, args.directory, args.exclude_dirs))

HashOk(f, p) == get_file_hash(f, p).ok

HashOf(f, p) == get_file_hash(f, p).hash

\* The result of get_file_hash for every discovered file.
Hashes(f, disc) == [p \in Range(disc) |-> get_file_hash(f, p)]

\* Of the discovered files, those hashed to h, in discovery order.
MembersIn(disc, hm, h) ==
    SelectSeq(disc, LAMBDA p : hm[p].ok /\ hm[p].hash = h)

\* The files of tree f hashed to h, in discovery order.
Members(f, h) ==
    LET disc == Discovery(f)
        hm == Hashes(f, disc)
    IN  MembersIn(disc, hm, h)

\* The duplicate sets a scan of tree f with the run's arguments finds.
Rescan(f) ==
    find_dups(scan(f, order, args.directory, args.exclude_dirs).hash_dict)

\* Every path the run has grouped, chosen, printed or acted on.
Touched ==
    UNION { Range(duplicates[k].paths) : k \in 1..Len(duplicates) }
    \cup { out[k].path : k \in { i \in 1..Len(out) :
              out[i].msg \notin {"Scanning directory", "Scanned", "Found",
                                 "Duplicate set", "For duplicate set",
                                 "No duplicate files found.", ""} } }
    \cup { sys[k].path : k \in 1..Len(sys) }
    \cup (IF pc \in {"files", "link"}
          THEN {keep_file} \cup Range(remove_files) ELSE {})

\* The state right after the scan of either tool.
AfterScan ==
    \/ args.tool = "scan" /\ pc = "done"
    \/ args.tool = "remove" /\ pc = "sets" /\ idx = 1
    \/ args.tool = "remove" /\ pc = "done" /\ duplicates = <<>>

RemoveCalls == SelectSeq(sys, LAMBDA c : c.call = "remove")

RemoveFailed(p) == \E k \in 1..Len(sys) : sys[k] = Call("remove", p, <<>>, FALSE)

RemoveDone(p) == \E k \in 1..Len(sys) : sys[k] = Call("remove", p, <<>>, TRUE)

\* The files a run over tree f plans to remove, in the order it takes them.
Planned(f) ==
    LET dups == Rescan(f)
    IN  flatten([k \in 1..Len(dups) |->
                   Tail(resolve(dups[k].paths, args.strategy))])

\* The files a run over tree f keeps.
Kept(f) ==
    LET dups == Rescan(f)
    IN  { Head(resolve(dups[k].paths, args.strategy)) : k \in 1..Len(dups) }

(***************************************************************************)
(* C1: a dry run of the remove tool changes nothing in the file system     *)
(* and makes no removal or link call, and the report it has printed when   *)
(* it ends is the report a second dry run with the same arguments prints.  *)
(***************************************************************************)
DryBlock(d) ==
    LET ps == resolve(d.paths, args.strategy)
    IN  <<Line("For duplicate set", <<>>, <<>>, d.hash, 0),
          Line("Keeping", Head(ps), <<>>, "", 0)>>
        \o [k \in 1..(Len(ps) - 1) |->
              IF args.symlink
              THEN Line("Would remove and create symlink", ps[k + 1],
                        Head(ps), "", 0)
              ELSE Line("Would remove", ps[k + 1], <<>>, "", 0)]
        \o <<Line("", <<>>, <<>>, "", 0)>>

SecondDryRun ==
    LET dups == Rescan(fs)
    IN  IF dups = <<>>
        THEN <<Line("No duplicate files found.", <<>>, <<>>, "", 0)>>
        ELSE flatten([k \in 1..Len(dups) |-> DryBlock(dups[k])])

C1_DryRunReadOnly ==
    (args.tool = "remove" /\ args.dry_run) =>
        /\ fs = fs0
        /\ sys = <<>>
        /\ pc = "done" => out = SecondDryRun

C1_Witness ==
    /\ args.tool = "remove" /\ args.dry_run /\ pc = "done"
    /\ Len(duplicates) = 2
    /\ \E k \in 1..Len(out) : out[k].msg = "Would remove"

(***************************************************************************)
(* C2, as claimed: after a live run without --symlink every duplicate set  *)
(* the run found is reduced to its retained member, and a scan of the same *)
(* tree finds no duplicate set with a file of those sets.                  *)
(***************************************************************************)
C2_Original ==
    (Live /\ ~args.symlink /\ pc = "done") =>
        /\ \A k \in 1..Len(duplicates) :
             \A i \in 2..Len(duplicates[k].paths) :
                lstat(fs, duplicates[k].paths[i]).kind = "none"
        /\ \A d \in Range(Rescan(fs)) :
             Range(d.paths) \cap Touched = {}

(***************************************************************************)
(* C2, amended: after a live run without --symlink every file whose        *)
(* removal succeeded is gone, the retained files and the files whose       *)
(* removal failed are in place, a scan of the same tree finds duplicate    *)
(* sets only among retained files and files whose removal failed, and it   *)
(* finds none when no removal failed.                                      *)
(***************************************************************************)
C2_LiveRunThenScan ==
    (Live /\ ~args.symlink /\ pc = "done") =>
        LET planned == Range(Planned(fs0))
            kept == Kept(fs0)
            again == Rescan(fs)
        IN  /\ \A p \in planned :
                 /\ RemoveDone(p) # RemoveFailed(p)
                 /\ RemoveDone(p) => lstat(fs, p).kind = "none"
                 /\ RemoveFailed(p) => lstat(fs, p) = lstat(fs0, p)
            /\ \A p \in kept : lstat(fs, p) = lstat(fs0, p)
            /\ \A d \in Range(again) :
                 \A p \in Range(d.paths) : p \in kept \/ RemoveFailed(p)
            /\ (\A p \in planned : ~RemoveFailed(p)) => again = <<>>

C2_Witness ==
    /\ Live /\ ~args.symlink /\ pc = "done"
    /\ Len(Rescan(fs0)) = 2
    /\ Rescan(fs) = <<>>

(***************************************************************************)
(* C3: after the scan of either tool the duplicate sets are the digest     *)
(* classes, of two members or more, of the files hashed: two hashed files  *)
(* share a set exactly when their digests are equal, each set lists the    *)
(* files of its digest in discovery order, and no set of fewer than two    *)
(* files is reported or resolved.                                          *)
(***************************************************************************)
C3_SetsAreDigestClasses ==
    (pc # "idle") =>
        LET disc == Discovery(fs0)
            hm == Hashes(fs0, disc)
            hashed == { p \in Range(disc) : hm[p].ok }
            SetsOf(p) == { k \in 1..Len(duplicates) :
                             p \in Range(duplicates[k].paths) }
        IN  /\ AfterScan =>
                 /\ \A p, q \in hashed :
                      p # q => ((SetsOf(p) \cap SetsOf(q) # {})
                                <=> hm[p].hash = hm[q].hash)
                 /\ \A k \in 1..Len(duplicates) :
                      /\ Len(duplicates[k].paths) >= 2
                      /\ duplicates[k].paths
                           = MembersIn(disc, hm, duplicates[k].hash)
            /\ \A i \in 1..Len(out) :
                 out[i].msg \in {"Duplicate set", "For duplicate set"}
                    => Len(MembersIn(disc, hm, out[i].hash)) >= 2

C3_Witness ==
    /\ AfterScan
    /\ \E p \in Range(Discovery(fs)) :
         HashOk(fs, p) /\ p \notin Touched
    /\ \E k \in 1..Len(duplicates) : Len(duplicates[k].paths) = 3

(***************************************************************************)
(* C4: with keep_shortest_path the retained path is no longer than any     *)
(* member of its set, it is the earliest discovered of the members of that *)
(* length, and the files to remove are all other members, by ascending     *)
(* length, members of equal length in discovery order.                     *)
(***************************************************************************)
C4_KeepShortestPath ==
    (args.tool = "remove" /\ args.strategy = "keep_shortest_path"
       /\ pc \in {"files", "link"}) =>
        LET mem == Members(fs0, duplicates[idx].hash)
        IN  /\ keep_file \in Range(mem)
            /\ \A p \in Range(mem) :
                 /\ PathLen(keep_file) <= PathLen(p)
                 /\ (PathLen(p) = PathLen(keep_file) /\ p # keep_file)
                      => Pos(mem, keep_file) < Pos(mem, p)
            /\ Range(remove_files) = Range(mem) \ {keep_file}
            /\ Len(remove_files) = Len(mem) - 1
            /\ \A a, b \in 1..Len(remove_files) :
                 a < b =>
                   \/ PathLen(remove_files[a]) < PathLen(remove_files[b])
                   \/ /\ PathLen(remove_files[a]) = PathLen(remove_files[b])
                      /\ Pos(mem, remove_files[a]) < Pos(mem, remove_files[b])

C4_Witness ==
    /\ args.tool = "remove" /\ args.strategy = "keep_shortest_path"
    /\ pc = "files"
    /\ LET mem == Members(fs0, duplicates[idx].hash)
       IN  /\ Len(mem) = 3
           /\ \E p, q \in Range(mem) : p # q /\ PathLen(p) = PathLen(q)

(***************************************************************************)
(* C5: with keep_first the retained path is the first discovered member    *)
(* of its set, and the files to remove are the other members, each once,   *)
(* in discovery order; the retained path is not among them.                *)
(***************************************************************************)
C5_KeepFirst ==
    (args.tool = "remove" /\ args.strategy = "keep_first"
       /\ pc \in {"files", "link"}) =>
        LET mem == Members(fs0, duplicates[idx].hash)
        IN  /\ keep_file = mem[1]
            /\ remove_files = Tail(mem)
            /\ keep_file \notin Range(remove_files)
            /\ Cardinality(Range(remove_files)) = Len(mem) - 1

C5_Witness ==
    /\ args.tool = "remove" /\ args.strategy = "keep_first"
    /\ pc = "files"
    /\ Len(remove_files) >= 2
    /\ \E p \in Range(remove_files) : PathLen(p) < PathLen(keep_file)

(***************************************************************************)
(* C6, as claimed: no file beneath a directory whose name is in the        *)
(* exclusion set is hashed, counted, grouped, retained or removed.         *)
(***************************************************************************)
\* p lies beneath a directory with an excluded name, looking at the
\* components of p from position `from` on.
Beneath(p, from) == \E k \in from..(Len(p) - 1) : p[k] \in args.exclude_dirs

C6_Original == \A p \in Touched : ~Beneath(p, 1)

(***************************************************************************)
(* C6, amended: no file beneath a directory below the starting directory   *)
(* whose name is in the exclusion set is hashed, counted, grouped,         *)
(* retained or removed; the starting directory itself is walked whatever   *)
(* its name, and the scan tool counts exactly the readable files that no   *)
(* excluded directory below the starting directory holds.                  *)
(***************************************************************************)
\* Every file of tree f under the run's starting directory, as the path
\* the walk would give it.
Under(f) ==
    LET top == abspath(args.directory)
        n == Len(top)
    IN  { args.directory \o SubSeq(s, n + 1, Len(s)) :
            s \in { t \in Slots : /\ Len(t) > n
                                  /\ SubSeq(t, 1, n) = top
                                  /\ f[t].kind # "none" } }

C6_ExcludedNeverWalked ==
    /\ \A p \in Touched : ~Beneath(p, Len(args.directory) + 1)
    /\ (args.tool = "scan" /\ pc = "done") =>
         /\ file_count =
              Cardinality({ p \in Under(fs) :
                              /\ ~Beneath(p, Len(args.directory) + 1)
                              /\ HashOk(fs, p) })
         /\ { out[k].path : k \in { i \in 1..Len(out) :
                                      out[i].msg = "Error accessing" } }
              = { p \in Under(fs) : /\ ~Beneath(p, Len(args.directory) + 1)
                                    /\ ~HashOk(fs, p) }

C6_Witness ==
    /\ args.tool = "scan" /\ pc = "done"
    /\ "a" \in args.exclude_dirs
    /\ duplicates # <<>>
    /\ \E p \in Under(fs) :
         /\ Beneath(p, Len(args.directory) + 1)
         /\ HashOk(fs, p)
         /\ \E q \in Touched : HashOf(fs, q) = HashOf(fs, p)

(***************************************************************************)
(* C7: a live run never stops at a failure: when it ends, the removal      *)
(* calls it made are exactly the files planned for removal, every set,     *)
(* each once, in order, whatever the outcome of the calls before; each     *)
(* planned file is in exactly one terminal state; and a run that has       *)
(* started ends.                                                           *)
(***************************************************************************)
SymlinkCall(p, ok) ==
    \E k \in 1..Len(sys) :
        sys[k].call = "symlink" /\ sys[k].path = p /\ sys[k].ok = ok

Terminal(p) ==
    { st \in {"Removed", "Linked", "RemovedLinkFailed", "RemovalFailed"} :
        \/ st = "Removed" /\ RemoveDone(p) /\ ~args.symlink
        \/ st = "Linked" /\ RemoveDone(p) /\ SymlinkCall(p, TRUE)
        \/ st = "RemovedLinkFailed" /\ RemoveDone(p) /\ SymlinkCall(p, FALSE)
        \/ st = "RemovalFailed" /\ RemoveFailed(p) }

C7_AtEnd ==
    (Live /\ pc = "done") =>
        LET planned == Planned(fs0)
        IN  /\ [k \in 1..Len(RemoveCalls) |-> RemoveCalls[k].path] = planned
            /\ \A p \in Range(planned) : Cardinality(Terminal(p)) = 1

C7_FailureNeverAborts ==
    /\ []C7_AtEnd
    /\ (pc \in {"sets", "files", "link"}) ~> (pc = "done")

C7_Witness ==
    /\ Live /\ pc = "done"
    /\ Len(duplicates) = 2
    /\ Terminal(Planned(fs0)[1]) = {"RemovalFailed"}
    /\ Terminal(Planned(fs0)[2]) = {"Linked"}

(***************************************************************************)
(* C8, as claimed: in both tools every file that cannot be read gets an    *)
(* error line and is left out of every duplicate set.                      *)
(***************************************************************************)
Unreadable ==
    LET disc == Discovery(fs0)
        hm == Hashes(fs0, disc)
    IN  SelectSeq(disc, LAMBDA p : ~hm[p].ok)

ErrorLines == SelectSeq(out, LAMBDA l : l.msg = "Error accessing")

\* Every path grouped, retained, planned for removal or acted on.
Processed ==
    UNION { Range(duplicates[k].paths) : k \in 1..Len(duplicates) }
    \cup { sys[k].path : k \in 1..Len(sys) }
    \cup (IF pc \in {"files", "link"}
          THEN {keep_file} \cup Range(remove_files) ELSE {})

C8_Original ==
    (pc # "idle") =>
        \A p \in Range(Unreadable) :
            /\ \E k \in 1..Len(ErrorLines) : ErrorLines[k].path = p
            /\ p \notin Processed

(***************************************************************************)
(* C8, amended: the scan tool prints one error line for each file that     *)
(* cannot be read, in discovery order, and counts the others; the remove   *)
(* tool prints no line for such a file; in both tools the file enters no   *)
(* duplicate set, is neither retained nor removed, and the files           *)
(* discovered after it are still hashed.                                   *)
(***************************************************************************)
C8_UnreadableSkipped ==
    (pc # "idle") =>
        LET disc == Discovery(fs0)
            hm == Hashes(fs0, disc)
            unreadable == SelectSeq(disc, LAMBDA p : ~hm[p].ok)
        IN  /\ args.tool = "scan" =>
                 /\ [k \in 1..Len(ErrorLines) |-> ErrorLines[k].path]
                      = unreadable
                 /\ file_count = Len(disc) - Len(unreadable)
            /\ args.tool = "remove" => ErrorLines = <<>>
            /\ Range(unreadable) \cap Processed = {}
            /\ AfterScan =>
                 \A p \in Range(disc) :
                    (hm[p].ok /\ Len(MembersIn(disc, hm, hm[p].hash)) >= 2)
                       => p \in Processed

C8_Witness ==
    /\ args.tool = "scan" /\ pc = "done"
    /\ Len(ErrorLines) = 1
    /\ \E p \in Processed :
         Pos(Discovery(fs0), ErrorLines[1].path) < Pos(Discovery(fs0), p)

(***************************************************************************)
(* C9: every step of a live run that makes a system call follows the       *)
(* executor's state machine.  A removal is of the file the loop is at; if  *)
(* it succeeds that path is gone and nothing else changes, if it fails     *)
(* nothing changes.  A link call comes only with --symlink, right after    *)
(* the successful removal of the same path; if it succeeds the path holds  *)
(* a link that resolves to the retained file of the set, if it fails       *)
(* nothing changes and the path stays absent.  No other step changes the   *)
(* file system.                                                            *)
(***************************************************************************)
OnlyChanged(p) ==
    \A s \in Slots : s # abspath(p) => fs'[s] = fs[s]

C9_ExecutorStateMachine ==
    [][ /\ (fs' # fs) => Len(sys') = Len(sys) + 1
        /\ (Len(sys') = Len(sys) + 1) =>
             LET c == sys'[Len(sys')]
             IN  /\ Live
                 /\ c.path = remove_files[j]
                 /\ keep_file = Head(duplicates[idx].paths)
                 /\ c.path \in Range(Tail(duplicates[idx].paths))
                 /\ c.call = "remove" =>
                      /\ \A k \in 1..Len(sys) : sys[k].path # c.path
                      /\ IF c.ok
                         THEN /\ lstat(fs, c.path).kind # "none"
                              /\ lstat(fs', c.path).kind = "none"
                              /\ OnlyChanged(c.path)
                         ELSE fs' = fs
                 /\ c.call = "symlink" =>
                      /\ args.symlink
                      /\ sys[Len(sys)] = Call("remove", c.path, <<>>, TRUE)
                      /\ lstat(fs, c.path).kind = "none"
                      /\ IF c.ok
                         THEN /\ lstat(fs', c.path).kind = "link"
                              /\ lstat(fs', c.path).target = c.target
                              /\ abspath(dirname(abspath(c.path)) \o c.target)
                                   = abspath(keep_file)
                              /\ OnlyChanged(c.path)
                         ELSE fs' = fs
      ]_vars

C9_Witness ==
    /\ Live /\ pc = "files"
    /\ \E k \in 1..Len(sys) : ~sys[k].ok
    /\ \E k \in 1..Len(sys) :
         /\ sys[k].call = "symlink" /\ sys[k].ok
         /\ Len(sys[k].target) >= 2

(***************************************************************************)
(* C10: no content is lost by a run: every digest that could be read       *)
(* through a scanned path when the run started can be read through some    *)
(* path when it ends, and the retained path of every duplicate set still   *)
(* gives its content.                                                      *)
(***************************************************************************)
C10_NoContentLost ==
    (args.tool = "remove" /\ pc = "done") =>
        LET disc == Discovery(fs0)
            before == Hashes(fs0, disc)
            after == [q \in Slots |-> get_file_hash(fs, q)]
        IN  /\ \A p \in Range(disc) :
                 before[p].ok =>
                    \E q \in Slots : after[q] = before[p]
            /\ \A p \in Kept(fs0) : get_file_hash(fs, p) = before[p]

====
